---- MODULE Spec2Model ----
\* Model of the n8n API client (src/src/clients/n8n_client.py): the request
\* executor with its tenacity retry decorator, the listing normalizer and the
\* credential sanitizer, with the exception classes of src/cli.py.
EXTENDS Integers, Sequences, FiniteSets, TLC

\* ------------------------------------------------------------------ bounds
MaxRecords == 3      \* longest record sequence in a listing payload
MaxNodes == 2        \* longest node sequence in a workflow payload
MaxPieces == 3       \* most path pieces of a configured base address
NumTasks == 2        \* tasks that use one client concurrently
MaxTransports == 2   \* transports one client creates over its life
MaxAttemptNumber == 30   \* largest attempt number a backoff wait is computed for
MaxStart == 5        \* latest time at which a wait or a direct call begins

\* ------------------------------------------------------- program constants
StopAfterAttempt == 3      \* stop_after_attempt(3)
WaitMultiplier == 1        \* wait_exponential(multiplier=1, ...)
WaitMin == 4               \* wait_exponential(min=4)
WaitMax == 10              \* wait_exponential(max=10)
DefaultRetryAfter == 60    \* response.headers.get('Retry-After', 60)

\* ------------------------------------------------------------------ strings
\* A string is a sequence of one-character strings; str.strip() removes the
\* leading and trailing whitespace.
RECURSIVE lstrip(_)
lstrip(s) == IF s # <<>> /\ Head(s) = " " THEN lstrip(Tail(s)) ELSE s

RECURSIVE rstrip(_)
rstrip(s) ==
    IF s # <<>> /\ s[Len(s)] = " " THEN rstrip(SubSeq(s, 1, Len(s) - 1)) ELSE s

strip(s) == rstrip(lstrip(s))

\* ------------------------------------------------------------- exceptions
\* An exception is [type, msg]; msg is the sequence of the parts of str(e),
\* so that f"{prefix}: {e}" is <<prefix>> \o e.msg.
Exc(type, msg) == [type |-> type, msg |-> msg]

NoKwargs == "no_kwargs"

\* class APIError(AIAdminHubError): pass
APIError(msg) == Exc("APIError", msg)

\* class N8nAPIError(APIError): pass.  The class defines no __init__, so a
\* construction with keyword arguments (status_code=..., response=...) raises
\* TypeError instead of building the exception.
N8nAPIError(msg, kwargs) ==
    IF kwargs = NoKwargs
    THEN Exc("N8nAPIError", msg)
    ELSE Exc("TypeError", <<"N8nAPIError() takes no keyword arguments">>)

\* The httpx classes the handlers and the retry decorator name: ReadTimeout is
\* a TimeoutException, ConnectError a NetworkError, RemoteProtocolError a
\* TransportError that is neither.
IsTimeoutException(e) == e.type \in {"ReadTimeout", "TimeoutException"}
IsNetworkError(e) == e.type \in {"ConnectError", "NetworkError"}

\* -------------------------------------------------------- request executor
\* What one attempt meets on the wire: a response (status, Retry-After header,
\* body) or an httpx exception raised by client.request.
NoHeader == -1
Statuses == {200, 302, 400, 401, 404, 429, 500}
RetryAfterValues == {NoHeader, 2}
TransportFailures == {"ConnectError", "ReadTimeout", "RemoteProtocolError"}

Response(status, retry_after, body) ==
    [kind |-> "response", status |-> status, retry_after |-> retry_after,
     exctype |-> "none", body |-> body]
NoBody == [shape |-> "none"]
Failure(exctype) ==
    [kind |-> "exception", status |-> 0, retry_after |-> NoHeader,
     exctype |-> exctype, body |-> NoBody]

\* The outcome without its body, as kept in the call's history.
Summary(o) ==
    [kind |-> o.kind, status |-> o.status, retry_after |-> o.retry_after,
     exctype |-> o.exctype]

Returned(value) == [kind |-> "return", exc |-> Exc("none", <<>>), value |-> value]
Raised(e) == [kind |-> "raise", exc |-> e, value |-> NoBody]

\* int(response.headers.get('Retry-After', 60))
retry_after_seconds(o) ==
    IF o.retry_after = NoHeader THEN DefaultRetryAfter ELSE o.retry_after

\* The try block of _make_request for a response that is not a 429: the
\* status classification.
classify_status(o) ==
    IF o.status = 401
    THEN Raised(N8nAPIError(<<"Authentication failed. Check your N8n API key.">>,
                            "status_code"))
    ELSE IF 400 <= o.status /\ o.status < 500
    THEN Raised(N8nAPIError(<<"Client error">>, "status_code"))
    ELSE IF o.status >= 500
    THEN Raised(N8nAPIError(<<"Server error">>, "status_code"))
    ELSE Returned(o.body)

\* Handlers that let the httpx exception through unchanged.
reraising_handlers(r) == r

\* The except clauses of _make_request.
except_handlers(r) ==
    IF r.kind = "raise" /\ IsTimeoutException(r.exc)
    THEN Raised(APIError(<<"Request timeout">> \o r.exc.msg))
    ELSE IF r.kind = "raise" /\ IsNetworkError(r.exc)
    THEN Raised(APIError(<<"Network error">> \o r.exc.msg))
    ELSE r

\* retry=retry_if_exception_type((httpx.TimeoutException, httpx.NetworkError))
retry_if_exception_type(e) == IsTimeoutException(e) \/ IsNetworkError(e)

\* stop=stop_after_attempt(3)
stop_after_attempt(attempt_number) == attempt_number >= StopAfterAttempt

RECURSIVE Pow2(_)
Pow2(n) == IF n <= 0 THEN 1 ELSE 2 * Pow2(n - 1)

Min(a, b) == IF a <= b THEN a ELSE b
Max(a, b) == IF a >= b THEN a ELSE b

\* The exponential value without floor and ceiling.
unclamped_wait(attempt_number) == WaitMultiplier * Pow2(attempt_number - 1)

\* wait=wait_exponential(multiplier=1, min=4, max=10)
wait_exponential(attempt_number) ==
    Max(Max(0, WaitMin), Min(WaitMultiplier * Pow2(attempt_number - 1), WaitMax))

\* A bare @retry: no stop condition, every exception retried.
bare_retry_decision(e, attempt_number) == "retry"

\* The retry decorator's decision after an attempt that raised e.
retry_decision(e, attempt_number) ==
    IF ~retry_if_exception_type(e) THEN "reraise"
    ELSE IF stop_after_attempt(attempt_number) THEN "retry_error"
    ELSE "retry"

\* ------------------------------------------------------ listing normalizer
\* A raw element of the record sequence: a JSON mapping with or without an id
\* and with or without the other required fields (active, name, createdAt,
\* updatedAt), or a JSON value that is no mapping.
IdStrings == {<<>>, <<" ">>, <<"a">>, <<" ", "b">>, <<"c", " ">>}

RawMapping(has_id, id, complete) ==
    [t |-> "mapping", has_id |-> has_id, id |-> id, complete |-> complete]
NonMapping == [t |-> "nonmapping", has_id |-> FALSE, id |-> <<>>, complete |-> FALSE]

RawRecords ==
    {NonMapping}
    \cup {RawMapping(FALSE, <<>>, c) : c \in BOOLEAN}
    \cup {RawMapping(TRUE, id, c) : id \in IdStrings, c \in BOOLEAN}

\* N8nWorkflowStatus.validate_id: raises on an empty or blank id.
validate_id_ok(v) == ~(v = <<>> \/ strip(v) = <<>>)
\* A validator that returns the id as it was given.
unstripped_validate_id(v) == v

validate_id(v) == strip(v)

\* N8nWorkflowStatus(**workflow_data): TRUE when the construction succeeds.
constructs(r) ==
    /\ r.t = "mapping"
    /\ r.has_id
    /\ r.complete
    /\ validate_id_ok(r.id)

\* The model object built from a raw record that constructs.
N8nWorkflowStatus(r) == [id |-> validate_id(r.id)]

\* A record loop that stops at the first record that fails to construct.
RECURSIVE aborting_loop(_, _, _)
aborting_loop(items, i, acc) ==
    IF i > Len(items) THEN acc
    ELSE IF constructs(items[i])
    THEN aborting_loop(items, i + 1,
            [workflows |-> Append(acc.workflows, N8nWorkflowStatus(items[i])),
             warnings |-> acc.warnings])
    ELSE [workflows |-> acc.workflows, warnings |-> acc.warnings + 1]

\* The for loop of list_workflows over workflows_data, from element i on:
\* acc.workflows is the list built so far, acc.warnings the warnings logged.
RECURSIVE convert_loop(_, _, _)
convert_loop(items, i, acc) ==
    IF i > Len(items) THEN acc
    ELSE IF constructs(items[i])
    THEN convert_loop(items, i + 1,
            [workflows |-> Append(acc.workflows, N8nWorkflowStatus(items[i])),
             warnings |-> acc.warnings])
    ELSE convert_loop(items, i + 1,
            [workflows |-> acc.workflows, warnings |-> acc.warnings + 1])

\* The JSON payload of a listing response.  data is the value of the "data"
\* key of a mapping: absent, null, a number, a string (n characters), a
\* mapping (n keys) or a list of raw records.
DataValue(t, n, items) == [t |-> t, n |-> n, items |-> items]

RecordSeqs == UNION {[1..n -> RawRecords] : n \in 0..MaxRecords}

DataValues ==
    {DataValue(t, 0, <<>>) : t \in {"absent", "null", "number"}}
    \cup {DataValue(t, n, <<>>) : t \in {"string", "mapping"}, n \in 0..1}
    \cup {DataValue("list", Len(items), items) : items \in RecordSeqs}

ListingBodies ==
    {[shape |-> "unparsable", data |-> DataValue("absent", 0, <<>>)],
     [shape |-> "scalar", data |-> DataValue("absent", 0, <<>>)]}
    \cup {[shape |-> "mapping", data |-> d] : d \in DataValues}
    \cup {[shape |-> "list", data |-> DataValue("list", Len(items), items)] :
             items \in RecordSeqs}

\* workflows_data as chosen by the shape handling of list_workflows.
workflows_data(body) ==
    IF body.shape = "mapping" /\ body.data.t # "absent"
    THEN body.data
    ELSE IF body.shape = "list" THEN body.data
    ELSE DataValue("list", 0, <<>>)

\* Python's iteration protocol on workflows_data: a list yields its elements,
\* a string its characters, a mapping its keys (none of them a mapping);
\* None and numbers are not iterable.
iterable(d) == d.t \in {"list", "string", "mapping"}
elements(d) ==
    IF d.t = "list" THEN d.items ELSE [i \in 1..d.n |-> NonMapping]

\* list_workflows after _make_request ended with er: the result of the call
\* and the number of warnings its record loop logged.
list_workflows(er) ==
    IF er.kind = "raise"
    THEN [result |-> Raised(N8nAPIError(<<"Failed to list workflows">> \o er.exc.msg,
                                        NoKwargs)),
          warnings |-> 0]
    ELSE IF er.value.shape = "unparsable"
    THEN [result |-> Raised(N8nAPIError(<<"Failed to list workflows",
                                          "JSONDecodeError">>, NoKwargs)),
          warnings |-> 0]
    ELSE IF ~iterable(workflows_data(er.value))
    THEN [result |-> Raised(N8nAPIError(<<"Failed to list workflows",
                                          "object is not iterable">>, NoKwargs)),
          warnings |-> 0]
    ELSE LET acc == convert_loop(elements(workflows_data(er.value)), 1,
                                 [workflows |-> <<>>, warnings |-> 0])
         IN [result |-> Returned([shape |-> "workflows", items |-> acc.workflows]),
             warnings |-> acc.warnings]

\* ----------------------------------------------------- credential sanitizer
CredTypes == {"httpBasicAuth", "slackApi"}
CredIds == {"c1", "c2"}
OtherStrings == {"x"}

CredRef(id) == [id |-> id, name |-> "My credential"]
Placeholder == [id |-> "REMOVED_FOR_SECURITY", name |-> "CREDENTIAL_PLACEHOLDER"]

\* The value under a node's "credentials" key: absent, JSON null, or a mapping
\* from credential type to credential reference.
CredValue(t, m) == [t |-> t, m |-> m]
CredMappings == UNION {[S -> {CredRef(id) : id \in CredIds}] : S \in SUBSET CredTypes}
CredValues ==
    {CredValue("absent", <<>>), CredValue("null", <<>>)}
    \cup {CredValue("map", m) : m \in CredMappings}

\* A node: its credentials and one other string-valued field (parameters),
\* which may hold any string, a credential identifier included.
Nodes ==
    [credentials : CredValues, parameters : CredIds \cup OtherStrings]
NodeSeqs == UNION {[1..n -> Nodes] : n \in 0..MaxNodes}

\* The JSON payload of a Get response.
WorkflowBody(has_nodes, nodes) ==
    [shape |-> "mapping", has_nodes |-> has_nodes, nodes |-> nodes]
WorkflowBodies ==
    {[shape |-> "unparsable", has_nodes |-> FALSE, nodes |-> <<>>],
     [shape |-> "list", has_nodes |-> FALSE, nodes |-> <<>>],
     WorkflowBody(FALSE, <<>>)}
    \cup {WorkflowBody(TRUE, ns) : ns \in NodeSeqs}

\* A loop body that replaces the entry of one credential type only.
sanitize_one_type(node) ==
    IF node.credentials.t = "map"
    THEN [node EXCEPT !.credentials.m =
             [cred_type \in DOMAIN node.credentials.m |->
                 IF cred_type = "httpBasicAuth" THEN Placeholder
                 ELSE node.credentials.m[cred_type]]]
    ELSE node

\* The body of the loop over sanitized["nodes"] for one node.
sanitize_node(node) ==
    IF node.credentials.t = "map"
    THEN [node EXCEPT !.credentials.m =
             [cred_type \in DOMAIN node.credentials.m |-> Placeholder]]
    ELSE node

\* Iterating a node's credentials raises TypeError when the value is null.
sanitize_node_ok(node) == node.credentials.t # "null"

\* The loop of _sanitize_credentials over the nodes, from node i on.
RECURSIVE sanitize_loop(_, _)
sanitize_loop(nodes, i) ==
    IF i > Len(nodes) THEN [ok |-> TRUE, nodes |-> nodes]
    ELSE IF ~sanitize_node_ok(nodes[i]) THEN [ok |-> FALSE, nodes |-> nodes]
    ELSE sanitize_loop([nodes EXCEPT ![i] = sanitize_node(nodes[i])], i + 1)

\* _sanitize_credentials(workflow_data)
sanitize_credentials(workflow_data) ==
    IF ~workflow_data.has_nodes THEN Returned(workflow_data)
    ELSE LET r == sanitize_loop(workflow_data.nodes, 1)
         IN IF r.ok
            THEN Returned([workflow_data EXCEPT !.nodes = r.nodes])
            ELSE Raised(Exc("TypeError", <<"'NoneType' object is not iterable">>))

\* The payload passed to _sanitize_credentials as it is after the call:
\* workflow_data.copy() copies the top-level mapping only, so the node list
\* and the node mappings the loop assigns to are those of the payload passed
\* in, also when the loop is left by an exception.
sanitize_credentials_input_after(workflow_data) ==
    IF ~workflow_data.has_nodes THEN workflow_data
    ELSE [workflow_data EXCEPT !.nodes = sanitize_loop(workflow_data.nodes, 1).nodes]

\* get_workflow after _make_request ended with er.  An N8nAPIError instance
\* carries no status_code attribute, so the 404 test of the first handler
\* raises AttributeError.
get_workflow(er) ==
    IF er.kind = "raise"
    THEN IF er.exc.type = "N8nAPIError"
         THEN Raised(Exc("AttributeError",
                         <<"'N8nAPIError' object has no attribute 'status_code'">>))
         ELSE Raised(N8nAPIError(<<"Failed to get workflow">> \o er.exc.msg, NoKwargs))
    ELSE IF er.value.shape = "unparsable"
    THEN Raised(N8nAPIError(<<"Failed to get workflow", "JSONDecodeError">>, NoKwargs))
    ELSE IF er.value.shape # "mapping"
    THEN Raised(N8nAPIError(<<"Failed to get workflow",
                              "object has no attribute 'get'">>, NoKwargs))
    ELSE Returned(er.value)

\* An export that sanitizes whatever the caller asked for.
always_sanitizing_export(er, include_credentials) ==
    LET got == get_workflow(er)
        data == IF got.kind = "return" THEN sanitize_credentials(got.value) ELSE got
    IN IF data.kind = "raise"
       THEN Raised(N8nAPIError(<<"Failed to export workflow">> \o data.exc.msg, NoKwargs))
       ELSE Returned([shape |-> "bundle",
                      workflow |-> data.value,
                      exported_by |-> "AI Admin Hub",
                      credentials_included |-> include_credentials])

\* export_workflow after _make_request ended with er.
export_workflow(er, include_credentials) ==
    LET got == get_workflow(er)
        data == IF got.kind = "return" /\ ~include_credentials
                THEN sanitize_credentials(got.value)
                ELSE got
    IN IF data.kind = "raise"
       THEN Raised(N8nAPIError(<<"Failed to export workflow">> \o data.exc.msg, NoKwargs))
       ELSE Returned([shape |-> "bundle",
                      workflow |-> data.value,
                      exported_by |-> "AI Admin Hub",
                      credentials_included |-> include_credentials])

\* ------------------------------------------------------------ base address
\* Addresses are strings of characters.  "http://h" stands for a scheme and a
\* host; the configured address is that prefix followed by path pieces.
SchemeHost == <<"h", "t", "t", "p", ":", "/", "/", "h">>
ApiSuffix == <<"/", "a", "p", "i", "/", "v", "1">>
UrlPieces == {<<"/">>, ApiSuffix, <<"/", "a", "p", "i">>, <<"/", "v", "1">>, <<"/", "n">>}

RECURSIVE Concat(_)
Concat(pieces) == IF pieces = <<>> THEN <<>> ELSE Head(pieces) \o Concat(Tail(pieces))

BaseUrlInputs ==
    {SchemeHost \o Concat(ps) : ps \in UNION {[1..n -> UrlPieces] : n \in 0..MaxPieces}}

\* str.rstrip('/') and str.lstrip('/')
RECURSIVE rstrip_slash(_)
rstrip_slash(s) ==
    IF s # <<>> /\ s[Len(s)] = "/" THEN rstrip_slash(SubSeq(s, 1, Len(s) - 1)) ELSE s

RECURSIVE lstrip_slash(_)
lstrip_slash(s) == IF s # <<>> /\ Head(s) = "/" THEN lstrip_slash(Tail(s)) ELSE s

\* str.endswith(suffix)
endswith(s, suffix) ==
    /\ Len(s) >= Len(suffix)
    /\ SubSeq(s, Len(s) - Len(suffix) + 1, Len(s)) = suffix

\* A normalizer that appends the API path whether or not it is present.
always_appending_normalizer(base_url) == rstrip_slash(base_url) \o ApiSuffix

\* A normalizer that does not remove the trailing slashes.
unstripped_normalizer(base_url) ==
    IF ~endswith(base_url, ApiSuffix) THEN base_url \o ApiSuffix ELSE base_url

\* N8nClient._normalize_base_url
normalize_base_url(base_url) ==
    LET url == rstrip_slash(base_url)
    IN IF ~endswith(url, ApiSuffix) THEN url \o ApiSuffix ELSE url

\* str.split('/') and '/'.join(segments)
RECURSIVE split_slash(_, _)
split_slash(s, current) ==
    IF s = <<>> THEN <<current>>
    ELSE IF Head(s) = "/" THEN <<current>> \o split_slash(Tail(s), <<>>)
    ELSE split_slash(Tail(s), Append(current, Head(s)))

RECURSIVE join_slash(_)
join_slash(segments) ==
    IF Len(segments) = 0 THEN <<>>
    ELSE IF Len(segments) = 1 THEN segments[1]
    ELSE segments[1] \o <<"/">> \o join_slash(Tail(segments))

\* The position of the first "/" of the path of an address that starts with
\* a scheme and "//" (Len + 1 when the address has no path).
RECURSIVE path_start(_, _)
path_start(address, i) ==
    IF i > Len(address) THEN i
    ELSE IF address[i] = "/" THEN i
    ELSE path_start(address, i + 1)

\* segments[1:-1] = filter(None, segments[1:-1])
drop_empty_inner(segments) ==
    IF Len(segments) <= 2 THEN segments
    ELSE <<segments[1]>>
         \o SelectSeq(SubSeq(segments, 2, Len(segments) - 1), LAMBDA g : g # <<>>)
         \o <<segments[Len(segments)]>>

\* urllib.parse.urljoin(base, url) for a relative reference url that has no
\* scheme, no authority, no leading "/" and no dot segments: the last segment
\* of the base path is replaced by the reference.
urljoin(base, url) ==
    IF url = <<>> THEN base
    ELSE LET p == path_start(base, Len(SchemeHost))
             authority == SubSeq(base, 1, p - 1)
             base_parts == split_slash(SubSeq(base, p + 1, Len(base)), <<>>)
             kept == IF p > Len(base) THEN <<>>
                     ELSE <<<<>>>> \o
                          (IF base_parts[Len(base_parts)] # <<>>
                           THEN SubSeq(base_parts, 1, Len(base_parts) - 1)
                           ELSE base_parts)
             segments == drop_empty_inner(kept \o split_slash(url, <<>>))
         IN IF p > Len(base)
            THEN authority \o <<"/">> \o join_slash(segments)
            ELSE authority \o join_slash(segments)

Workflows == <<"w", "o", "r", "k", "f", "l", "o", "w", "s">>
Endpoints == {<<"/">> \o Workflows, <<"/">> \o Workflows \o <<"/", "w">>}

\* ------------------------------------------------------------ health prober
HealthStatus(status, has_count, workflow_count, has_error, error) ==
    [shape |-> "health", status |-> status,
     has_count |-> has_count, workflow_count |-> workflow_count,
     has_error |-> has_error, error |-> error]

\* A prober that lets the error of the listing call through.
raising_health_check(listed) ==
    IF listed.kind = "return"
    THEN Returned(HealthStatus("healthy", TRUE, Len(listed.value.items), FALSE, <<>>))
    ELSE listed

\* A prober that reports "healthy" with no workflows when the listing fails.
optimistic_health_check(listed) ==
    IF listed.kind = "return"
    THEN Returned(HealthStatus("healthy", TRUE, Len(listed.value.items), FALSE, <<>>))
    ELSE Returned(HealthStatus("healthy", TRUE, 0, FALSE, <<>>))

\* health_check after its list_workflows(limit=1) call ended with listed:
\* except Exception turns every error into an "unhealthy" status whose error
\* is str(e).
health_check(listed) ==
    IF listed.kind = "return"
    THEN Returned(HealthStatus("healthy", TRUE, Len(listed.value.items), FALSE, <<>>))
    ELSE Returned(HealthStatus("unhealthy", FALSE, 0, TRUE, listed.exc.msg))

\* ------------------------------------------------------------ state machine
VARIABLES
    client,      \* self.client: "None" or "open"
    pc,          \* the calling task: "idle", "inflight", "sleep429", "done"
    call,        \* the operation called and its arguments
    attempts,    \* attempt number of the current _make_request call
    now,         \* seconds the calling task has been suspended in sleeps
    wakeAt,      \* when the sleep in progress ends
    sent,        \* the times at which the attempts of the call were issued
    history,     \* the outcomes the attempts of the call met, with their times
    execResult,  \* how _make_request ended
    opResult,    \* how the operation ended
    warnings,    \* warnings logged by the record loop of list_workflows
    config_url,  \* config.base_url
    base_url,    \* self.base_url
    prev_url,    \* the address the last normalization was applied to
    constructed, \* how many times the address has been normalized
    request_url, \* the URL of the last request (empty before the first)
    self_client, \* self.client as a transport identity: 0 is None
    tstate,      \* each transport: "unborn", "open", "closing", "closed"
    task_pc,     \* each task: "idle", "request" (awaiting client.request),
                 \* "aclose" (awaiting client.aclose)
    task_target, \* the transport each task's awaited call is on
    issued,      \* the requests issued: transport and its state at that time
    last,        \* the last step taken on the client, and the transport it was on
    config,      \* how N8nConfig(...) ended, and the api_key it holds
    new_client   \* how N8nClient(config) ended

callvars == <<client, pc, call, attempts, now, wakeAt, sent, history, execResult,
              opResult, warnings>>
urlvars == <<config_url, base_url, prev_url, constructed, request_url>>
lifevars == <<self_client, tstate, task_pc, task_target, issued, last>>
confvars == <<config, new_client>>
vars == <<callvars, urlvars, lifevars, confvars>>

Pending == [kind |-> "pending", exc |-> Exc("none", <<>>), value |-> NoBody]

WorkflowIds == {<<>>, <<" ">>, <<"w">>}

Call(op, workflow_id, include_credentials) ==
    [op |-> op, workflow_id |-> workflow_id,
     include_credentials |-> include_credentials]

Tasks == 1..NumTasks
Transports == 1..MaxTransports

\* The address part of a constructed client: N8nClient.__init__ has
\* normalized config.base_url.
UrlInit(address) ==
    /\ config_url = address
    /\ prev_url = address
    /\ base_url = normalize_base_url(address)
    /\ constructed = 1
    /\ request_url = <<>>

\* The transport part of a constructed client: self.client = None, no task
\* is inside a call.
LifeInit ==
    /\ self_client = 0
    /\ tstate = [x \in Transports |-> "unborn"]
    /\ task_pc = [t \in Tasks |-> "idle"]
    /\ task_target = [t \in Tasks |-> 0]
    /\ issued = {}
    /\ last = [step |-> "init", transport |-> 0]

\* N8nConfig(api_key=..., base_url=...): api_key is a required str field
\* without further constraint, base_url goes through validate_base_url.
ApiKeyArgs ==
    {[given |-> FALSE, value |-> <<>>],
     [given |-> TRUE, value |-> <<>>],
     [given |-> TRUE, value |-> <<"k">>]}

HttpScheme == <<"h", "t", "t", "p", ":", "/", "/">>
HttpsScheme == <<"h", "t", "t", "p", "s", ":", "/", "/">>
BaseUrlArgs == BaseUrlInputs \cup {<<"h">>, HttpsScheme \o <<"h", "/">>}

startswith(v, prefix) ==
    /\ Len(v) >= Len(prefix)
    /\ SubSeq(v, 1, Len(prefix)) = prefix

validate_base_url_ok(v) == startswith(v, HttpScheme) \/ startswith(v, HttpsScheme)
validate_base_url(v) == rstrip_slash(v)

NoConfig == [status |-> "none", api_key |-> <<>>, base_url |-> <<>>]

N8nConfig(api_key, v) ==
    IF api_key.given /\ validate_base_url_ok(v)
    THEN [status |-> "ok", api_key |-> api_key.value,
          base_url |-> validate_base_url(v)]
    ELSE [status |-> "ValidationError", api_key |-> <<>>, base_url |-> <<>>]

KeyRequired == "N8n API key is required"
NoClient == [status |-> "none", msg |-> ""]

\* Whether N8nClient.__init__ passes its api_key test, and what it raises
\* when it does not.
init_accepts(api_key) == api_key # <<>>
init_result(api_key) ==
    IF init_accepts(api_key) THEN [status |-> "ok", msg |-> ""]
    ELSE [status |-> "ValueError", msg |-> KeyRequired]

\* The configuration of a constructed client.
ConfInit(address) ==
    /\ config = [status |-> "ok", api_key |-> <<"k">>, base_url |-> address]
    /\ new_client = init_result(<<"k">>)

\* N8nClient.__init__: no transport yet.
Init ==
    /\ UrlInit(SchemeHost)
    /\ ConfInit(SchemeHost)
    /\ LifeInit
    /\ client = "None"
    /\ pc = "idle"
    /\ call = Call("none", <<>>, FALSE)
    /\ attempts = 0
    /\ now = 0
    /\ wakeAt = 0
    /\ sent = <<>>
    /\ history = <<>>
    /\ execResult = Pending
    /\ opResult = Pending
    /\ warnings = 0

\* _ensure_client(): creates the transport when there is none.
ensure_client(c) == IF c = "None" THEN "open" ELSE c

\* The start of _make_request up to the await of client.request: the first
\* attempt is on the wire.
FirstAttempt ==
    /\ client' = ensure_client(client)
    /\ attempts' = 1
    /\ sent' = <<now>>
    /\ pc' = "inflight"
    /\ UNCHANGED <<now, wakeAt, history, execResult, opResult, warnings>>
    /\ UNCHANGED <<urlvars, lifevars, confvars>>

\* if not workflow_id or not workflow_id.strip(): raise ValueError
RejectId ==
    /\ opResult' = Raised(Exc("ValueError", <<"Workflow ID cannot be empty">>))
    /\ pc' = "done"
    /\ UNCHANGED <<client, attempts, now, wakeAt, sent, history, execResult, warnings>>
    /\ UNCHANGED <<urlvars, lifevars, confvars>>

\* A validation that tests the id without stripping it.
unstripped_empty_id(workflow_id) == workflow_id = <<>>

empty_id(workflow_id) == workflow_id = <<>> \/ strip(workflow_id) = <<>>

CallListWorkflows ==
    /\ pc = "idle"
    /\ call' = Call("list", <<>>, FALSE)
    /\ FirstAttempt

\* health_check(): list_workflows(limit=1)
CallHealthCheck ==
    /\ pc = "idle"
    /\ call' = Call("health", <<>>, FALSE)
    /\ FirstAttempt

CallGetWorkflow ==
    /\ pc = "idle"
    /\ \E id \in WorkflowIds :
          /\ call' = Call("get", id, FALSE)
          /\ IF empty_id(id) THEN RejectId ELSE FirstAttempt

CallExportWorkflow ==
    /\ pc = "idle"
    /\ \E id \in WorkflowIds, inc \in BOOLEAN :
          /\ call' = Call("export", id, inc)
          /\ IF empty_id(id) THEN RejectId ELSE FirstAttempt

\* What the operation does with the way _make_request ended.
operation(c, er) ==
    IF c.op = "list" THEN list_workflows(er)
    ELSE IF c.op = "health"
    THEN [result |-> health_check(list_workflows(er).result),
          warnings |-> list_workflows(er).warnings]
    ELSE IF c.op = "get" THEN [result |-> get_workflow(er), warnings |-> 0]
    ELSE IF c.op = "request" THEN [result |-> er, warnings |-> 0]
    ELSE [result |-> export_workflow(er, c.include_credentials), warnings |-> 0]

\* The retry decorator after the function body ended with r at time t: a
\* backoff sleep and the next attempt, or the end of _make_request and the
\* rest of the operation that called it.
Complete(r, t) ==
    LET d == IF r.kind = "raise" THEN retry_decision(r.exc, attempts) ELSE "return"
        final == IF d = "retry_error"
                 THEN Raised(Exc("RetryError", <<"RetryError">> \o r.exc.msg))
                 ELSE r
    IN IF d = "retry"
       THEN /\ now' = t + wait_exponential(attempts)
            /\ attempts' = attempts + 1
            /\ sent' = Append(sent, now')
            /\ pc' = "inflight"
            /\ UNCHANGED <<execResult, opResult, warnings>>
       ELSE /\ now' = t
            /\ execResult' = final
            /\ opResult' = operation(call, final).result
            /\ warnings' = warnings + operation(call, final).warnings
            /\ pc' = "done"
            /\ UNCHANGED <<attempts, sent>>

Bodies(op) ==
    IF op \in {"list", "health"} THEN ListingBodies
    ELSE IF op = "request" THEN {NoBody}
    ELSE WorkflowBodies

Outcomes(op) ==
    {Failure(x) : x \in TransportFailures}
    \cup {Response(st, NoHeader, NoBody) : st \in Statuses \ {200, 302, 429}}
    \cup {Response(429, ra, NoBody) : ra \in RetryAfterValues}
    \cup {Response(st, NoHeader, b) : st \in {200, 302}, b \in Bodies(op)}

\* The awaited client.request ends: the rest of the try block, up to the
\* sleep of the 429 branch or the end of the function body.
Receive ==
    /\ pc = "inflight"
    /\ \E o \in Outcomes(call.op) :
          /\ history' = Append(history, [o |-> Summary(o), at |-> now])
          /\ IF o.kind = "response" /\ o.status = 429
             THEN /\ wakeAt' = now + retry_after_seconds(o)
                  /\ pc' = "sleep429"
                  /\ UNCHANGED <<now, attempts, sent, execResult, opResult, warnings>>
             ELSE /\ Complete(except_handlers(
                          IF o.kind = "exception"
                          THEN Raised(Exc(o.exctype, <<o.exctype>>))
                          ELSE classify_status(o)), now)
                  /\ UNCHANGED wakeAt
    /\ UNCHANGED <<client, call>>
    /\ UNCHANGED <<urlvars, lifevars, confvars>>

\* A 429 branch that sleeps again when its sleep ends.
sleeping_again ==
    /\ pc = "sleep429"
    /\ now' = wakeAt
    /\ UNCHANGED <<client, pc, call, attempts, wakeAt, sent, history, execResult,
                   opResult, warnings>>
    /\ UNCHANGED <<urlvars, lifevars, confvars>>

\* asyncio.sleep(retry_after) of the 429 branch ends: the branch raises
\* httpx.NetworkError inside the try block.
RateLimitWake ==
    /\ pc = "sleep429"
    /\ Complete(except_handlers(
            Raised(Exc("NetworkError", <<"Rate limited, retrying...">>))), wakeAt)
    /\ UNCHANGED <<client, call, wakeAt, history>>
    /\ UNCHANGED <<urlvars, lifevars, confvars>>

Next ==
    \/ CallListWorkflows
    \/ CallHealthCheck
    \/ CallGetWorkflow
    \/ CallExportWorkflow
    \/ Receive
    \/ RateLimitWake

Spec == Init /\ [][Next]_vars

\* ------------------------------------------------- the executor on its own
\* A constructed client at any time, with no call under way.
InitExec ==
    /\ UrlInit(SchemeHost)
    /\ ConfInit(SchemeHost)
    /\ LifeInit
    /\ client = "None"
    /\ pc = "idle"
    /\ call = Call("none", <<>>, FALSE)
    /\ attempts = 0
    /\ now \in 0..MaxStart
    /\ wakeAt = 0
    /\ sent = <<>>
    /\ history = <<>>
    /\ execResult = Pending
    /\ opResult = Pending
    /\ warnings = 0

\* _make_request("GET", endpoint) called on its own, up to the await of
\* client.request: _ensure_client(), the URL, the first attempt.
MakeRequest ==
    /\ pc = "idle"
    /\ call' = Call("request", <<>>, FALSE)
    /\ \E endpoint \in Endpoints :
          request_url' = urljoin(base_url, lstrip_slash(endpoint))
    /\ client' = ensure_client(client)
    /\ attempts' = 1
    /\ sent' = <<now>>
    /\ pc' = "inflight"
    /\ UNCHANGED <<now, wakeAt, history, execResult, opResult, warnings>>
    /\ UNCHANGED <<config_url, base_url, prev_url, constructed, lifevars, confvars>>

NextExec ==
    \/ MakeRequest
    \/ Receive
    \/ RateLimitWake

\* Every awaited network call and every awaited sleep eventually completes.
SpecExec == InitExec /\ [][NextExec]_vars /\ WF_vars(Receive) /\ WF_vars(RateLimitWake)

\* ----------------------------------------- base address and request URL
\* The client as left by N8nClient.__init__ for any configured address, with
\* no call under way.
CallIdle ==
    /\ client = "None"
    /\ pc = "idle"
    /\ call = Call("none", <<>>, FALSE)
    /\ attempts = 0
    /\ now = 0
    /\ wakeAt = 0
    /\ sent = <<>>
    /\ history = <<>>
    /\ execResult = Pending
    /\ opResult = Pending
    /\ warnings = 0

InitUrl ==
    /\ \E address \in BaseUrlInputs : UrlInit(address) /\ ConfInit(address)
    /\ LifeInit
    /\ CallIdle

\* A client is constructed from the canonical address of this one:
\* _normalize_base_url is applied to its own result.
Renormalize ==
    /\ constructed < 2
    /\ prev_url' = base_url
    /\ base_url' = normalize_base_url(base_url)
    /\ constructed' = constructed + 1
    /\ UNCHANGED <<config_url, request_url, callvars, lifevars, confvars>>

\* url = urljoin(self.base_url, endpoint.lstrip('/'))
BuildUrl ==
    /\ \E endpoint \in Endpoints :
          request_url' = urljoin(base_url, lstrip_slash(endpoint))
    /\ UNCHANGED <<config_url, base_url, prev_url, constructed, callvars, lifevars, confvars>>

NextUrl ==
    \/ Renormalize
    \/ BuildUrl

SpecUrl == InitUrl /\ [][NextUrl]_vars

\* ------------------------------------------------------ transport lifetime
\* The identity of the transport httpx.AsyncClient(...) creates next.
fresh_transport == Cardinality({x \in Transports : tstate[x] # "unborn"}) + 1

\* An _ensure_client that creates a transport on every call.
always_creating(handle) == fresh_transport

\* _ensure_client() on transport identities: self.client afterwards.
ensure_client_handle(handle) == IF handle = 0 THEN fresh_transport ELSE handle

\* The transports after _ensure_client().
ensured_tstate ==
    IF ensure_client_handle(self_client) = self_client THEN tstate
    ELSE [tstate EXCEPT ![ensure_client_handle(self_client)] = "open"]

\* __aenter__ (and create_n8n_client): _ensure_client(), which has no
\* suspension point.
Aenter(t) ==
    /\ task_pc[t] = "idle"
    /\ ensure_client_handle(self_client) \in Transports
    /\ self_client' = ensure_client_handle(self_client)
    /\ tstate' = ensured_tstate
    /\ last' = [step |-> "aenter", transport |-> self_client']
    /\ UNCHANGED <<task_pc, task_target, issued, callvars, urlvars, confvars>>

\* _make_request up to the await of self.client.request: _ensure_client()
\* and the request issued on self.client, with no suspension in between.
RequestBegin(t) ==
    /\ task_pc[t] = "idle"
    /\ ensure_client_handle(self_client) \in Transports
    /\ self_client' = ensure_client_handle(self_client)
    /\ tstate' = ensured_tstate
    /\ task_target' = [task_target EXCEPT ![t] = self_client']
    /\ issued' = issued \cup {[transport |-> self_client', state |-> tstate'[self_client']]}
    /\ task_pc' = [task_pc EXCEPT ![t] = "request"]
    /\ last' = [step |-> "request", transport |-> self_client']
    /\ UNCHANGED <<callvars, urlvars, confvars>>

\* The awaited request ends (with a response or an exception) and the call
\* returns to its caller.
RequestEnd(t) ==
    /\ task_pc[t] = "request"
    /\ task_pc' = [task_pc EXCEPT ![t] = "idle"]
    /\ task_target' = [task_target EXCEPT ![t] = 0]
    /\ last' = [step |-> "response", transport |-> task_target[t]]
    /\ UNCHANGED <<self_client, tstate, issued, callvars, urlvars, confvars>>

\* __aexit__ up to the await of self.client.aclose(): nothing happens when
\* self.client is None, otherwise the close of the transport begins.
AexitBegin(t) ==
    /\ task_pc[t] = "idle"
    /\ IF self_client = 0
       THEN /\ last' = [step |-> "aexit_noop", transport |-> 0]
            /\ UNCHANGED <<tstate, task_pc, task_target>>
       ELSE /\ tstate' = [tstate EXCEPT ![self_client] =
                              IF @ = "open" THEN "closing" ELSE @]
            /\ task_target' = [task_target EXCEPT ![t] = self_client]
            /\ task_pc' = [task_pc EXCEPT ![t] = "aclose"]
            /\ last' = [step |-> "aexit_begin", transport |-> self_client]
    /\ UNCHANGED <<self_client, issued, callvars, urlvars, confvars>>

\* An __aexit__ that closes the transport and keeps the reference to it.
keeping_aexit_end(t) ==
    /\ task_pc[t] = "aclose"
    /\ tstate' = [tstate EXCEPT ![task_target[t]] = "closed"]
    /\ task_pc' = [task_pc EXCEPT ![t] = "idle"]
    /\ task_target' = [task_target EXCEPT ![t] = 0]
    /\ last' = [step |-> "aexit_end", transport |-> task_target[t]]
    /\ UNCHANGED <<self_client, issued, callvars, urlvars, confvars>>

\* The awaited aclose() ends: the transport is closed and self.client = None.
AexitEnd(t) ==
    /\ task_pc[t] = "aclose"
    /\ tstate' = [tstate EXCEPT ![task_target[t]] = "closed"]
    /\ self_client' = 0
    /\ task_pc' = [task_pc EXCEPT ![t] = "idle"]
    /\ task_target' = [task_target EXCEPT ![t] = 0]
    /\ last' = [step |-> "aexit_end", transport |-> task_target[t]]
    /\ UNCHANGED <<issued, callvars, urlvars, confvars>>

NextLife ==
    \E t \in Tasks :
        \/ Aenter(t)
        \/ RequestBegin(t)
        \/ RequestEnd(t)
        \/ AexitBegin(t)
        \/ AexitEnd(t)

InitLife == UrlInit(SchemeHost) /\ ConfInit(SchemeHost) /\ LifeInit /\ CallIdle

SpecLife == InitLife /\ [][NextLife]_vars

\* ------------------------------------------------------- the backoff wait
\* The retry decorator is about to wait after attempt number attempts, which
\* ended at time now.
InitWait ==
    /\ UrlInit(SchemeHost)
    /\ ConfInit(SchemeHost)
    /\ LifeInit
    /\ client = "None"
    /\ pc = "backoff"
    /\ call = Call("list", <<>>, FALSE)
    /\ attempts \in 1..MaxAttemptNumber
    /\ now \in 0..MaxStart
    /\ wakeAt = now
    /\ sent = <<>>
    /\ history = <<>>
    /\ execResult = Pending
    /\ opResult = Pending
    /\ warnings = 0

\* The decorator computes the wait for the attempt number and sleeps.
BackoffSleep ==
    /\ pc = "backoff"
    /\ wakeAt' = now + wait_exponential(attempts)
    /\ pc' = "backoff_sleep"
    /\ UNCHANGED <<client, call, attempts, now, sent, history, execResult, opResult,
                   warnings>>
    /\ UNCHANGED <<urlvars, lifevars, confvars>>

\* The sleep ends.
BackoffWake ==
    /\ pc = "backoff_sleep"
    /\ now' = wakeAt
    /\ pc' = "backoff_done"
    /\ UNCHANGED <<client, call, attempts, wakeAt, sent, history, execResult, opResult,
                   warnings>>
    /\ UNCHANGED <<urlvars, lifevars, confvars>>

NextWait ==
    \/ BackoffSleep
    \/ BackoffWake

SpecWait == InitWait /\ [][NextWait]_vars

\* ------------------------------------------------------- the construction
\* Nothing has been constructed.
InitConf ==
    /\ config = NoConfig
    /\ new_client = NoClient
    /\ config_url = <<>>
    /\ prev_url = <<>>
    /\ base_url = <<>>
    /\ constructed = 0
    /\ request_url = <<>>
    /\ LifeInit
    /\ CallIdle

\* config = N8nConfig(api_key=..., base_url=...)
ConstructConfig ==
    /\ config.status = "none"
    /\ \E api_key \in ApiKeyArgs, v \in BaseUrlArgs :
          config' = N8nConfig(api_key, v)
    /\ UNCHANGED <<new_client, callvars, urlvars, lifevars>>

\* N8nClient(config): the api_key test, then self.config, self.client = None
\* and self.base_url.
ConstructClient ==
    /\ config.status = "ok"
    /\ new_client.status = "none"
    /\ new_client' = init_result(config.api_key)
    /\ IF init_accepts(config.api_key)
       THEN /\ config_url' = config.base_url
            /\ prev_url' = config.base_url
            /\ base_url' = normalize_base_url(config.base_url)
            /\ constructed' = 1
            /\ self_client' = 0
            /\ UNCHANGED <<request_url, tstate, task_pc, task_target, issued, last>>
       ELSE UNCHANGED <<urlvars, lifevars>>
    /\ UNCHANGED <<config, callvars>>

NextConf ==
    \/ ConstructConfig
    \/ ConstructClient

SpecConf == InitConf /\ [][NextConf]_vars

\* ------------------------------------------------------------------ claims
\* _make_request has ended (a call rejected by its id validation never
\* reaches it).
ExecDone == pc = "done" /\ execResult.kind # "pending"

IsNetworkFailure(h) ==
    h.o.kind = "exception" /\ h.o.exctype \in {"ConnectError", "ReadTimeout"}
IsRateLimited(h) == h.o.kind = "response" /\ h.o.status = 429
IsRetryable(h) == IsNetworkFailure(h) \/ IsRateLimited(h)

\* C1: a call whose every attempt fails at the network level (network error
\* or timeout) makes 3 attempts before it gives up.
C1_NetworkFailuresRetried ==
    (ExecDone /\ \A i \in 1..Len(history) : IsNetworkFailure(history[i]))
        => Len(history) = StopAfterAttempt

\* C2: an attempt (not the last allowed one) that receives HTTP 429 is followed
\* by a re-attempt, issued no earlier than Retry-After seconds (60 without the
\* header) after the 429 was received.
C2_RateLimitWaitThenReattempt ==
    ExecDone =>
        \A i \in 1..Len(history) :
            (IsRateLimited(history[i]) /\ i < StopAfterAttempt) =>
                /\ Len(sent) > i
                /\ sent[i + 1] >= history[i].at + retry_after_seconds(history[i].o)

\* C3: a call whose first attempt receives HTTP 401 makes exactly one attempt
\* and fails with an authentication error (an N8nAPIError).
C3_UnauthorizedFailsOnce ==
    (ExecDone /\ history[1].o.kind = "response" /\ history[1].o.status = 401) =>
        /\ attempts = 1
        /\ execResult.kind = "raise"
        /\ execResult.exc.type = "N8nAPIError"
        /\ execResult.exc.msg = <<"Authentication failed. Check your N8n API key.">>

IsFatalStatus(h) ==
    /\ h.o.kind = "response"
    /\ h.o.status >= 400
    /\ h.o.status \notin {401, 429}

\* C4: an attempt that receives a 4xx status other than 401 and 429, or a 5xx
\* status, is the last attempt of its call, and the call fails with a
\* client-request error (4xx) or a server error (5xx).
C4_OtherStatusesFatal ==
    \A i \in 1..Len(history) :
        IsFatalStatus(history[i]) =>
            /\ i = Len(history)
            /\ pc = "done"
            /\ execResult.kind = "raise"
            /\ execResult.exc.type = "N8nAPIError"
            /\ execResult.exc.msg =
                   IF history[i].o.status < 500 THEN <<"Client error">>
                   ELSE <<"Server error">>

\* C5: no call of the request executor makes more than 3 attempts.
C5_AtMostThreeAttempts ==
    attempts <= StopAfterAttempt /\ Len(sent) <= StopAfterAttempt

\* A call has ended after an attempt that met a 429.
C5_Witness == ExecDone /\ attempts >= 1 /\ IsRateLimited(history[Len(history)])

\* The message of the failure underlying the last attempt.
Underlying(h) ==
    IF IsRateLimited(h) THEN <<"Rate limited, retrying...">> ELSE <<h.o.exctype>>

ListDone == pc = "done" /\ call.op = "list" /\ execResult.kind = "return"

\* A record is well formed when it is a mapping that carries every required
\* field and an id with at least one character that is not a blank.
WellFormed(r) ==
    /\ r.t = "mapping"
    /\ r.has_id
    /\ r.complete
    /\ \E k \in 1..Len(r.id) : r.id[k] # " "

\* The record sequence of a listing payload of a recognized shape.
IsRecordList(body) ==
    \/ body.shape = "list"
    \/ body.shape = "mapping" /\ body.data.t = "list"

\* C7: for a listing response with N well-formed and M malformed records in
\* any order, list_workflows returns the N well-formed records (their ids
\* trimmed) in their original order and logs M warnings; it does not fail.
C7_MalformedRecordsSkipped ==
    (ListDone /\ IsRecordList(execResult.value)) =>
        LET items == execResult.value.data.items
            good == SelectSeq(items, WellFormed)
        IN /\ opResult.kind = "return"
           /\ Len(opResult.value.items) = Len(good)
           /\ \A k \in 1..Len(good) : opResult.value.items[k].id = strip(good[k].id)
           /\ warnings = Len(items) - Len(good)

\* A listing of three records, a malformed one between two well-formed ones,
\* has been normalized.
C7_Witness ==
    /\ ListDone
    /\ IsRecordList(execResult.value)
    /\ Len(execResult.value.data.items) = 3
    /\ WellFormed(execResult.value.data.items[1])
    /\ ~WellFormed(execResult.value.data.items[2])
    /\ WellFormed(execResult.value.data.items[3])
    /\ execResult.value.data.items[1].id # execResult.value.data.items[3].id
    /\ warnings = 1

\* C8: a successful listing response whose JSON payload is neither a mapping
\* with a data sequence nor a bare sequence makes list_workflows return an
\* empty sequence.
C8_UnrecognizedShapeIsEmpty ==
    (/\ ListDone
     /\ history[Len(history)].o.status = 200
     /\ execResult.value.shape # "unparsable"
     /\ ~IsRecordList(execResult.value))
        => opResult = Returned([shape |-> "workflows", items |-> <<>>])

ExportDone(include_credentials) ==
    /\ pc = "done"
    /\ call.op = "export"
    /\ call.include_credentials = include_credentials
    /\ opResult.kind = "return"

\* C9: in the sanitized payload every node that carried a credentials mapping
\* has the same credential type keys, each with the placeholder pair as value.
C9_EveryEntryIsPlaceholder ==
    ExportDone(FALSE) =>
        LET src == execResult.value
            out == opResult.value.workflow
        IN /\ out.has_nodes = src.has_nodes
           /\ Len(out.nodes) = Len(src.nodes)
           /\ \A i \in 1..Len(src.nodes) :
                 src.nodes[i].credentials.t = "map" =>
                    /\ out.nodes[i].credentials.t = "map"
                    /\ DOMAIN out.nodes[i].credentials.m
                           = DOMAIN src.nodes[i].credentials.m
                    /\ \A k \in DOMAIN out.nodes[i].credentials.m :
                          out.nodes[i].credentials.m[k] = Placeholder

\* A payload whose second node carries credentials of two types has been
\* exported without credentials.
C9_Witness ==
    /\ ExportDone(FALSE)
    /\ Len(execResult.value.nodes) = 2
    /\ execResult.value.nodes[2].credentials.t = "map"
    /\ DOMAIN execResult.value.nodes[2].credentials.m = CredTypes
    /\ opResult.value.workflow.nodes[2].credentials.m["slackApi"] = Placeholder

\* The credential identifiers in the credentials entries of a payload's nodes.
CredentialIdsOf(wf) ==
    UNION {{wf.nodes[i].credentials.m[k].id : k \in DOMAIN wf.nodes[i].credentials.m} :
              i \in 1..Len(wf.nodes)}

\* Every string that occurs as a value anywhere in a payload.
StringsOf(wf) ==
    {wf.nodes[i].parameters : i \in 1..Len(wf.nodes)}
    \cup UNION {{wf.nodes[i].credentials.m[k].id : k \in DOMAIN wf.nodes[i].credentials.m} :
                  i \in 1..Len(wf.nodes)}

\* C10: the bundle of export_workflow(id, include_credentials=False) holds no
\* credential identifier of the source payload's credentials entries, wherever
\* in the payload the identifier occurs.
C10_NoCredentialIdInExport ==
    ExportDone(FALSE) =>
        StringsOf(opResult.value.workflow) \cap CredentialIdsOf(execResult.value) = {}

\* C11: the credentials_included flag of every returned bundle equals the
\* caller's include_credentials argument, and with include_credentials=True
\* the bundle's workflow is the payload the Get call returned, unchanged.
C11_RawExportPreservesPayload ==
    (pc = "done" /\ call.op = "export" /\ opResult.kind = "return") =>
        /\ opResult.value.credentials_included = call.include_credentials
        /\ call.include_credentials => opResult.value.workflow = execResult.value

\* A payload with a credentials entry has been exported with credentials.
C11_Witness ==
    /\ ExportDone(TRUE)
    /\ Len(execResult.value.nodes) >= 1
    /\ execResult.value.nodes[1].credentials.t = "map"
    /\ "slackApi" \in DOMAIN execResult.value.nodes[1].credentials.m
    /\ opResult.value.workflow.nodes[1].credentials.m["slackApi"].id = "c2"

HealthDone == pc = "done" /\ call.op = "health"

\* The underlying listing call of a health check ended with an error: the
\* executor raised, or the body of its response could not be parsed.
ListingFailed ==
    \/ execResult.kind = "raise"
    \/ execResult.kind = "return" /\ execResult.value.shape = "unparsable"

\* C12: health_check always returns a status; when the underlying listing
\* call ended with an error, the status is "unhealthy" and its error detail
\* is the non-empty message of that error.
C12_HealthCheckNeverRaises ==
    HealthDone =>
        /\ opResult.kind = "return"
        /\ opResult.value.shape = "health"
        /\ ListingFailed =>
              /\ opResult.value.status = "unhealthy"
              /\ opResult.value.has_error
              /\ opResult.value.error # <<>>
              /\ Head(opResult.value.error) = "Failed to list workflows"
              /\ execResult.kind = "raise" =>
                    Tail(opResult.value.error) = execResult.exc.msg

\* A health check against an unreachable address has ended.
C12_Witness ==
    /\ HealthDone
    /\ history[1].o.exctype = "ConnectError"
    /\ opResult.value.status = "unhealthy"

\* An identifier that is empty or consists of blanks only.
Blank(id) == \A k \in 1..Len(id) : id[k] = " "

\* C15: get_workflow and export_workflow called with an empty or blank id
\* fail with ValueError before anything else: no attempt is made, no
\* transport is created and the error is not wrapped.
C15_BlankIdRejected ==
    (pc # "idle" /\ call.op \in {"get", "export"} /\ Blank(call.workflow_id)) =>
        /\ pc = "done"
        /\ opResult.kind = "raise"
        /\ opResult.exc.type = "ValueError"
        /\ execResult = Pending
        /\ attempts = 0
        /\ sent = <<>>
        /\ client = "None"

\* export_workflow has been called with an id of one blank.
C15_Witness ==
    /\ pc = "done"
    /\ call.op = "export"
    /\ call.workflow_id = <<" ">>
    /\ opResult.exc.type = "ValueError"

\* C16: when the service answers the Get request with 404, get_workflow and
\* export_workflow fail, after exactly one attempt, with a not-found error
\* (N8nAPIError "Workflow not found: <id>").
C16_NotFoundSurfaced ==
    (/\ pc = "done"
     /\ call.op \in {"get", "export"}
     /\ Len(history) >= 1
     /\ history[1].o.status = 404) =>
        /\ attempts = 1
        /\ opResult.kind = "raise"
        /\ opResult.exc.type = "N8nAPIError"
        /\ \E k \in 1..Len(opResult.exc.msg) : opResult.exc.msg[k] = "Workflow not found"

\* The message that names the error kind of a status.
KindMessage(status) ==
    IF status = 401 THEN "Authentication failed. Check your N8n API key."
    ELSE IF status < 500 THEN "Client error"
    ELSE "Server error"

\* C17: when the first attempt of list_workflows, get_workflow or
\* export_workflow receives 401, another 4xx or a 5xx, the caller receives,
\* after that single attempt, an error of that same kind and not a generic
\* failure.
C17_ErrorKindPropagates ==
    (/\ pc = "done"
     /\ call.op \in {"list", "get", "export"}
     /\ Len(history) >= 1
     /\ history[1].o.status \in {400, 401, 500}) =>
        /\ attempts = 1
        /\ opResult.kind = "raise"
        /\ opResult.exc.type = "N8nAPIError"
        /\ Head(opResult.exc.msg) = KindMessage(history[1].o.status)

\* C13: a freshly constructed client holds no transport; after __aenter__ or
\* the start of a request it holds one; after __aexit__ has completed it holds
\* none and the transport that __aexit__ closed is closed.
C13_LazyCreateScopedRelease ==
    /\ last.step = "init" => self_client = 0
    /\ last.step \in {"aenter", "request"} =>
          /\ self_client # 0
          /\ self_client = last.transport
          /\ tstate[self_client] # "unborn"
    /\ last.step = "aexit_noop" => self_client = 0
    /\ last.step = "aexit_end" =>
          /\ self_client = 0
          /\ tstate[last.transport] = "closed"

\* __aexit__ has completed on the transport that __aenter__ created.
C13_Witness ==
    /\ last = [step |-> "aexit_end", transport |-> 1]
    /\ tstate[1] = "closed"
    /\ self_client = 0

\* C14: no request is issued on a transport whose close has begun or
\* completed.
C14_NoRequestAfterCloseBegan ==
    \A r \in issued : r.state = "open"

\* C18: _normalize_base_url applied to its own result returns it unchanged.
C18_NormalizeIdempotent ==
    constructed = 2 => base_url = prev_url

\* An address with the API path and a trailing slash has been normalized
\* twice.
C18_Witness ==
    /\ constructed = 2
    /\ config_url = SchemeHost \o ApiSuffix \o <<"/">>
    /\ base_url = SchemeHost \o ApiSuffix

\* The address ends with the characters of /api/v1.
EndsInApi(address) ==
    /\ Len(address) >= Len(ApiSuffix)
    /\ \A i \in 1..Len(ApiSuffix) :
          address[Len(address) - Len(ApiSuffix) + i] = ApiSuffix[i]

\* C19: the canonical base address ends in /api/v1 and has no trailing slash:
\* it is the configured address without its trailing slashes, followed by one
\* /api/v1 when that stem does not already end in /api/v1 and by nothing
\* when it does.
C19_CanonicalBaseAddress ==
    /\ EndsInApi(base_url)
    /\ base_url[Len(base_url)] # "/"
    /\ \E k \in 0..Len(config_url) :
          LET stem == SubSeq(config_url, 1, k)
          IN /\ k = 0 \/ config_url[k] # "/"
             /\ \A j \in (k + 1)..Len(config_url) : config_url[j] = "/"
             /\ base_url = IF EndsInApi(stem) THEN stem ELSE stem \o ApiSuffix

\* A client has been constructed from an address with a trailing slash and
\* without the API path.
C19_Witness ==
    /\ config_url = SchemeHost \o <<"/", "n", "/">>
    /\ base_url = SchemeHost \o <<"/", "n">> \o ApiSuffix

\* C20: the URL requested for an endpoint path is the canonical base address,
\* its /api/v1 segment included, followed by the path.
C20_RequestRootedAtBase ==
    request_url # <<>> => \E endpoint \in Endpoints : request_url = base_url \o endpoint

\* C21: a configuration is never constructed with an empty API key, and
\* N8nClient(config) with an empty API key raises ValueError("N8n API key is
\* required") and creates no transport.
C21_NoClientWithEmptyKey ==
    /\ config.status = "ok" => config.api_key # <<>>
    /\ (config.status = "ok" /\ config.api_key = <<>> /\ new_client.status # "none") =>
          /\ new_client = [status |-> "ValueError", msg |-> KeyRequired]
          /\ \A x \in Transports : tstate[x] = "unborn"

\* The identifier is non-empty and equal to its own trimmed form.
Trimmed(id) ==
    /\ id # <<>>
    /\ id[1] # " "
    /\ id[Len(id)] # " "

\* C22: no N8nWorkflowStatus is constructed from an empty or whitespace-only
\* identifier, and every record list_workflows returns has an identifier
\* that is non-empty and equal to its own trimmed form.
C22_NoEmptyIdentifier ==
    (ListDone /\ IsRecordList(execResult.value) /\ opResult.kind = "return") =>
        LET items == execResult.value.data.items
            usable(r) == r.t = "mapping" /\ r.has_id /\ ~Blank(r.id)
        IN /\ \A k \in 1..Len(opResult.value.items) : Trimmed(opResult.value.items[k].id)
           /\ Len(opResult.value.items) <= Len(SelectSeq(items, usable))

\* A listing holding a complete record with a blank identifier and a complete
\* record whose identifier has a leading blank has been normalized.
C22_Witness ==
    /\ ListDone
    /\ IsRecordList(execResult.value)
    /\ opResult.kind = "return"
    /\ execResult.value.data.items =
          <<RawMapping(TRUE, <<" ">>, TRUE), RawMapping(TRUE, <<" ", "b">>, TRUE)>>
    /\ Len(opResult.value.items) = 1
    /\ opResult.value.items[1].id = <<"b">>

\* C23: the backoff delay of the retry decorator is at least 4 and at most 10
\* seconds for every attempt number.
C23_BackoffWithinFloorAndCeiling ==
    pc = "backoff_sleep" => (wakeAt - now >= 4 /\ wakeAt - now <= 10)

\* The waits after the first attempt (floor) and after the fifth attempt
\* (ceiling) have been computed.
C23_Witness ==
    /\ pc = "backoff_sleep"
    /\ \/ attempts = 1 /\ wakeAt - now = 4
       \/ attempts = 5 /\ wakeAt - now = 10

\* C24: between an attempt that received HTTP 429 with Retry-After r and the
\* next attempt of the same call the executor waits r seconds and then the
\* backoff delay: the re-attempt is issued at least r + 4 seconds after the
\* 429 was received.
C24_DelaysCompoundAfter429 ==
    ExecDone =>
        \A i \in 1..Len(history) :
            (IsRateLimited(history[i]) /\ i < StopAfterAttempt) =>
                /\ Len(sent) > i
                /\ sent[i + 1] - history[i].at >=
                       retry_after_seconds(history[i].o) + WaitMin

\* C25: health_check reports "healthy" exactly when its listing call
\* completes without error; a healthy status carries the number of records
\* the normalizer returned and no error detail, an unhealthy status carries
\* an error detail and no workflow count.
C25_HealthyIffListingSucceeds ==
    HealthDone =>
        LET listed == list_workflows(execResult).result
            status == opResult.value
        IN /\ opResult.kind = "return"
           /\ status.status \in {"healthy", "unhealthy"}
           /\ status.status = "healthy" <=> listed.kind = "return"
           /\ status.status = "healthy" =>
                 /\ status.has_count
                 /\ status.workflow_count = Len(listed.value.items)
                 /\ ~status.has_error
           /\ status.status = "unhealthy" =>
                 /\ status.has_error
                 /\ ~status.has_count

\* A health check whose listing held one well-formed and one malformed
\* record has ended.
C25_Witness ==
    /\ HealthDone
    /\ IsRecordList(execResult.value)
    /\ Len(execResult.value.data.items) = 2
    /\ opResult.value.status = "healthy"
    /\ opResult.value.workflow_count = 1

\* C26: concurrent first requests and scope entries create the transport
\* exactly once and all use it: as long as no close has begun, at most one
\* transport exists and every request was issued on it; and while the client
\* holds a transport, no later one has been created.
C26_TransportCreatedOnce ==
    /\ (\A x \in Transports : tstate[x] \in {"unborn", "open"}) =>
          /\ Cardinality({x \in Transports : tstate[x] = "open"}) <= 1
          /\ \A r \in issued : r.transport = self_client
    /\ self_client # 0 =>
          \A y \in Transports : y > self_client => tstate[y] = "unborn"

\* Two tasks have issued their first requests concurrently and both await
\* them on the one transport.
C26_Witness ==
    /\ \A t \in Tasks : task_pc[t] = "request" /\ task_target[t] = 1
    /\ tstate[1] = "open"
    /\ \A y \in Transports : y > 1 => tstate[y] = "unborn"

\* C29: every transport the client has created is the client's current
\* handle or has had its close started.
C29_NoTransportLeaked ==
    \A x \in Transports : tstate[x] = "open" => self_client = x

\* C27: the request executor returns a response only if its status is 2xx.
C27_OnlySuccessReturned ==
    (ExecDone /\ execResult.kind = "return") =>
        /\ history[Len(history)].o.kind = "response"
        /\ history[Len(history)].o.status >= 200
        /\ history[Len(history)].o.status <= 299

\* C28: _sanitize_credentials leaves the payload passed in equal to what it
\* was before the call, the credentials entries of its nodes included.
C28_SanitizerLeavesInputUntouched ==
    (ExportDone(FALSE) /\ get_workflow(execResult).kind = "return") =>
        sanitize_credentials_input_after(execResult.value) = execResult.value

\* C30: every call of the request executor eventually ends, by returning a
\* response or raising an error, provided each network call and each sleep
\* eventually completes.
C30_ExecutorTerminates ==
    (pc \in {"inflight", "sleep429"}) ~> ExecDone

\* A call has ended after the sleep of the 429 branch.
C30_Witness ==
    /\ ExecDone
    /\ Len(history) = 1
    /\ IsRateLimited(history[1])
    /\ now = history[1].at + retry_after_seconds(history[1].o)
    /\ execResult.kind = "raise"

====
